---- MODULE Spec2Model ----
(***************************************************************************)
(* Model of src/src/instrument.js, the redux-devtools instrumentation      *)
(* store enhancer: the lifted ("history") reducer built by liftReducerWith,*)
(* the replay engine recomputeStates / computeNextEntry, and the           *)
(* projection layer unliftStore (getState, replaceReducer).                *)
(*                                                                         *)
(* Conventions.                                                            *)
(*  - JavaScript `undefined` as an application state is the integer        *)
(*    Undefined; an `undefined` error is the empty string (falsy, as in    *)
(*    `if (error)`).                                                       *)
(*  - A computed entry is a record [def, state, error]; def = FALSE is the *)
(*    JavaScript value `undefined` standing where an entry object is       *)
(*    expected (recomputeStates pushes it when the first staged id is      *)
(*    skipped).                                                            *)
(*  - currentStateIndex and the positions of computedStates are 0-based as *)
(*    in the source; At(seq, i) reads seq[i] the JavaScript way.           *)
(*  - A TypeError raised inside the lifted reducer or inside getState is   *)
(*    recorded in `last.out`; the store keeps its previous lifted state,   *)
(*    except for the key PERFORM_ACTION has already written in place into  *)
(*    actionsById.                                                         *)
(*  - actionsById is a JavaScript object that successive lifted states     *)
(*    share: PERFORM_ACTION writes into it in place, and only RESET,       *)
(*    COMMIT and ROLLBACK build a new one.  A lifted state of the model    *)
(*    holds the contents of the object; which kept lifted states hold the  *)
(*    same object as the store is tracked by kept[i].obj and curObj.       *)
(*  - Date.now() timestamps of the lifted actions are not modelled.        *)
(***************************************************************************)
EXTENDS Integers, Sequences, FiniteSets

\* Largest id PERFORM_ACTION may assign in a run of Spec.
MaxActionId == 2
\* Largest id PERFORM_ACTION may assign in a run of SpecStore.
MaxStoreActionId == 1
\* Largest id PERFORM_ACTION may assign in a run of SpecImport.
MaxImportActionId == 1
\* Lifted states the caller may hold in a run of SpecImport.
MaxImportKept == 1
\* Largest id PERFORM_ACTION may assign in a run of SpecTyped.
MaxTypedActionId == 1
\* Largest id PERFORM_ACTION may assign in a run of SpecAlias.
MaxAliasActionId == 1
\* Lifted states the caller may hold in a run of SpecAlias.
MaxAliasKept == 2
\* Largest id PERFORM_ACTION may assign in a run of SpecDispatch.
MaxDispatches == 3
\* The application counter counts modulo Modulus.
Modulus == 2

\* JavaScript `undefined` as an application state.
Undefined == 0 - 1

AppStates == (0 .. (Modulus - 1)) \cup {Undefined}
\* Preloaded states the store may be constructed with.
InitialStates == {1}
\* Application action types that may be dispatched.
AppActions == {"INC", "UNDEF", "BOOM"}
\* Application reducers the store may run.
Reducers == {"counter", "safe"}

INIT_ACTION == "@@INIT"
InterruptedError == "Interrupted by an error up the chain"
BoomError == "Error: BOOM"

(***************************************************************************)
(* The application reducer passed to instrument(): a counter with an ES6   *)
(* default parameter (state = 0).  INC increments, UNDEF returns           *)
(* undefined, BOOM throws under "counter" and resets to 0 under "safe";    *)
(* any other action (the synthetic @@INIT) returns the state.              *)
(***************************************************************************)
reducer(r, state, action) ==
  LET s == IF state = Undefined THEN 0 ELSE state IN
  CASE action = "INC"   -> [threw |-> FALSE, value |-> (s + 1) % Modulus, err |-> ""]
    [] action = "UNDEF" -> [threw |-> FALSE, value |-> Undefined, err |-> ""]
    [] action = "BOOM"  -> IF r = "counter"
                           THEN [threw |-> TRUE, value |-> Undefined, err |-> BoomError]
                           ELSE [threw |-> FALSE, value |-> 0, err |-> ""]
    [] OTHER            -> [threw |-> FALSE, value |-> s, err |-> ""]

\* The monitor reducer passed to instrument(): it keeps the parity of the
\* number of meta-actions it has seen, (state = 0, action) => 1 - state with
\* the first call (state undefined, action {}) giving 0.
monitorReducer(monitorState, liftedAction) ==
  IF monitorState = Undefined THEN 0 ELSE 1 - monitorState

\* ActionCreators.
performAction(action) == [type |-> "PERFORM_ACTION", action |-> action]
reset == [type |-> "RESET"]
rollback == [type |-> "ROLLBACK"]
commit == [type |-> "COMMIT"]
sweep == [type |-> "SWEEP"]
toggleAction(id) == [type |-> "TOGGLE_ACTION", id |-> id]
jumpToState(index) == [type |-> "JUMP_TO_STATE", index |-> index]
importState(nextLiftedState) ==
  [type |-> "IMPORT_STATE", nextLiftedState |-> nextLiftedState]

liftAction(action) == performAction(action)

\* The JavaScript value `undefined` where a computed entry is expected.
NoEntry == [def |-> FALSE, state |-> Undefined, error |-> ""]

\* seq[i] for a 0-based index i: `undefined` when out of range.
At(seq, i) == IF i >= 0 /\ i < Len(seq) THEN seq[i + 1] ELSE NoEntry

\* Array.prototype.indexOf, 0-based, -1 when absent.
indexOf(seq, x) ==
  IF \E i \in 1 .. Len(seq) : seq[i] = x
  THEN (CHOOSE i \in 1 .. Len(seq) :
          seq[i] = x /\ \A j \in 1 .. (i - 1) : seq[j] # x) - 1
  ELSE 0 - 1

Min(a, b) == IF a < b THEN a ELSE b

\* obj[key] = value on a JavaScript object used as a dictionary.
Put(obj, key, value) ==
  [k \in DOMAIN obj \cup {key} |-> IF k = key THEN value ELSE obj[k]]

(***************************************************************************)
(* computeNextEntry                                                        *)
(***************************************************************************)
\* computeNextEntry without its `if (error)` branch: the reducer runs even
\* after an error up the chain.
computeNextEntryNoPropagation(r, action, state, error) ==
  LET res == reducer(r, state, action) IN
  IF res.threw
  THEN [def |-> TRUE, state |-> state, error |-> res.err]
  ELSE [def |-> TRUE, state |-> res.value, error |-> ""]

computeNextEntry(r, action, state, error) ==
  IF error # ""
  THEN [def |-> TRUE, state |-> state, error |-> InterruptedError]
  ELSE LET res == reducer(r, state, action) IN
       IF res.threw
       THEN [def |-> TRUE, state |-> state, error |-> res.err]
       ELSE [def |-> TRUE, state |-> res.value, error |-> ""]

(***************************************************************************)
(* recomputeStates                                                         *)
(***************************************************************************)
\* shouldSkip comparing with 0 instead of -1: the id at the head of
\* skippedActionIds is not skipped.
shouldSkipOffByOne(skippedActionIds, actionId) ==
  indexOf(skippedActionIds, actionId) > 0

\* const shouldSkip = skippedActionIds.indexOf(actionId) > -1;
shouldSkip(skippedActionIds, actionId) ==
  indexOf(skippedActionIds, actionId) > 0 - 1

RECURSIVE recomputeLoop(_, _, _, _, _, _, _)
recomputeLoop(r, committedState, actionsById, stagedActionIds, skippedActionIds, computedStates, i) ==
  IF i >= Len(stagedActionIds)
  THEN computedStates
  ELSE LET actionId == stagedActionIds[i + 1]
           action == actionsById[actionId].action
           previousEntry == At(computedStates, i - 1)
           previousState == IF previousEntry.def THEN previousEntry.state
                                                 ELSE committedState
           previousError == IF previousEntry.def THEN previousEntry.error ELSE ""
           entry == IF shouldSkip(skippedActionIds, actionId)
                    THEN previousEntry
                    ELSE computeNextEntry(r, action, previousState, previousError)
       IN recomputeLoop(r, committedState, actionsById, stagedActionIds,
                        skippedActionIds, Append(computedStates, entry), i + 1)

recomputeStates(r, committedState, actionsById, stagedActionIds, skippedActionIds) ==
  recomputeLoop(r, committedState, actionsById, stagedActionIds, skippedActionIds,
                <<>>, 0)

(***************************************************************************)
(* lodash/array/difference: the values of array not in values, in order.   *)
(***************************************************************************)
difference(array, values) ==
  LET Kept(x) == \A j \in 1 .. Len(values) : values[j] # x
  IN SelectSeq(array, Kept)

(***************************************************************************)
(* liftReducerWith: the initial lifted state and the history reducer.      *)
(* Each case of the switch is an operator that returns                     *)
(*   [threw, shouldRecomputeStates, state]                                 *)
(* where state holds the local variables after the case and threw says     *)
(* that the case raised a TypeError.                                       *)
(***************************************************************************)
InitActionsById == [id \in {0} |-> liftAction(INIT_ACTION)]

initialLiftedState(initialCommittedState) ==
  [monitorState      |-> monitorReducer(Undefined, [type |-> ""]),
   nextActionId      |-> 1,
   actionsById       |-> InitActionsById,
   stagedActionIds   |-> <<0>>,
   skippedActionIds  |-> <<>>,
   committedState    |-> initialCommittedState,
   currentStateIndex |-> 0,
   computedStates    |-> <<>>]

Done(state, recompute) ==
  [threw |-> FALSE, shouldRecomputeStates |-> recompute, state |-> state]

Thrown(state) ==
  [threw |-> TRUE, shouldRecomputeStates |-> FALSE, state |-> state]

\* RESET that keeps committedState, as ROLLBACK does.
ResetCaseKeepsCommitted(ls, initialCommittedState) ==
  Done([ls EXCEPT !.actionsById = InitActionsById,
                  !.nextActionId = 1,
                  !.stagedActionIds = <<0>>,
                  !.skippedActionIds = <<>>,
                  !.currentStateIndex = 0], TRUE)

ResetCase(ls, initialCommittedState) ==
  Done([ls EXCEPT !.actionsById = InitActionsById,
                  !.nextActionId = 1,
                  !.stagedActionIds = <<0>>,
                  !.skippedActionIds = <<>>,
                  !.committedState = initialCommittedState,
                  !.currentStateIndex = 0], TRUE)

CommitCase(ls) ==
  LET selected == At(ls.computedStates, ls.currentStateIndex) IN
  IF ~selected.def
  THEN Thrown(ls)
  ELSE Done([ls EXCEPT !.actionsById = InitActionsById,
                       !.nextActionId = 1,
                       !.stagedActionIds = <<0>>,
                       !.skippedActionIds = <<>>,
                       !.committedState = selected.state,
                       !.currentStateIndex = 0], TRUE)

RollbackCase(ls) ==
  Done([ls EXCEPT !.actionsById = InitActionsById,
                  !.nextActionId = 1,
                  !.stagedActionIds = <<0>>,
                  !.skippedActionIds = <<>>,
                  !.currentStateIndex = 0], TRUE)

\* TOGGLE_ACTION that leaves computedStates as it was.
ToggleActionCaseNoRecompute(ls, liftedAction) ==
  LET index == indexOf(ls.skippedActionIds, liftedAction.id) IN
  IF index = 0 - 1
  THEN Done([ls EXCEPT !.skippedActionIds = <<liftedAction.id>> \o @], FALSE)
  ELSE Done([ls EXCEPT !.skippedActionIds =
                         SubSeq(@, 1, index) \o SubSeq(@, index + 2, Len(@))],
            FALSE)

ToggleActionCase(ls, liftedAction) ==
  LET index == indexOf(ls.skippedActionIds, liftedAction.id) IN
  IF index = 0 - 1
  THEN Done([ls EXCEPT !.skippedActionIds = <<liftedAction.id>> \o @], TRUE)
  ELSE Done([ls EXCEPT !.skippedActionIds =
                         SubSeq(@, 1, index) \o SubSeq(@, index + 2, Len(@))],
            TRUE)

\* SWEEP without the Math.min on currentStateIndex.
SweepCaseNoClamp(ls) ==
  Done([ls EXCEPT !.stagedActionIds = difference(@, ls.skippedActionIds),
                  !.skippedActionIds = <<>>], TRUE)

SweepCase(ls) ==
  LET staged == difference(ls.stagedActionIds, ls.skippedActionIds) IN
  Done([ls EXCEPT !.stagedActionIds = staged,
                  !.skippedActionIds = <<>>,
                  !.currentStateIndex = Min(@, Len(staged) - 1)], TRUE)

\* The JUMP_TO_STATE case without its `break`: control falls into SWEEP.
JumpToStateCaseFallsThrough(ls, liftedAction) ==
  SweepCase([ls EXCEPT !.currentStateIndex = liftedAction.index])

JumpToStateCase(ls, liftedAction) ==
  Done([ls EXCEPT !.currentStateIndex = liftedAction.index], FALSE)

\* PERFORM_ACTION computing the next entry from the selected entry instead
\* of the last one.
PerformActionCaseFromSelected(r, ls, liftedAction) ==
  LET actionId == ls.nextActionId
      previousEntry == At(ls.computedStates, ls.currentStateIndex)
      nextEntry == computeNextEntry(r, liftedAction.action,
                                    previousEntry.state, previousEntry.error)
  IN Done([ls EXCEPT
             !.currentStateIndex =
                IF @ = Len(ls.stagedActionIds) - 1 THEN @ + 1 ELSE @,
             !.nextActionId = actionId + 1,
             !.actionsById = Put(@, actionId, liftedAction),
             !.stagedActionIds = Append(@, actionId),
             !.computedStates = Append(@, nextEntry)], FALSE)

\* PERFORM_ACTION that does not hand the previous entry's error on.
PerformActionCaseDropsError(r, ls, liftedAction) ==
  LET actionId == ls.nextActionId
      previousEntry == At(ls.computedStates, Len(ls.computedStates) - 1)
      nextEntry == computeNextEntry(r, liftedAction.action,
                                    previousEntry.state, "")
  IN Done([ls EXCEPT
             !.currentStateIndex =
                IF @ = Len(ls.stagedActionIds) - 1 THEN @ + 1 ELSE @,
             !.nextActionId = actionId + 1,
             !.actionsById = Put(@, actionId, liftedAction),
             !.stagedActionIds = Append(@, actionId),
             !.computedStates = Append(@, nextEntry)], FALSE)

\* PERFORM_ACTION that takes the id without advancing nextActionId.
PerformActionCaseReusesId(r, ls, liftedAction) ==
  LET currentStateIndex ==
        IF ls.currentStateIndex = Len(ls.stagedActionIds) - 1
        THEN ls.currentStateIndex + 1
        ELSE ls.currentStateIndex
      actionId == ls.nextActionId
      actionsById == Put(ls.actionsById, actionId, liftedAction)
      previousEntry == At(ls.computedStates, Len(ls.computedStates) - 1)
  IN IF ~previousEntry.def
     THEN Thrown([ls EXCEPT !.actionsById = actionsById])
     ELSE LET nextEntry == computeNextEntry(r, liftedAction.action,
                                            previousEntry.state,
                                            previousEntry.error)
          IN Done([ls EXCEPT !.currentStateIndex = currentStateIndex,
                             !.actionsById = actionsById,
                             !.stagedActionIds = Append(@, actionId),
                             !.computedStates = Append(@, nextEntry)], FALSE)

PerformActionCase(r, ls, liftedAction) ==
  LET currentStateIndex ==
        IF ls.currentStateIndex = Len(ls.stagedActionIds) - 1
        THEN ls.currentStateIndex + 1
        ELSE ls.currentStateIndex
      actionId == ls.nextActionId
      \* Mutation of the dictionary the previous lifted state shares.
      actionsById == Put(ls.actionsById, actionId, liftedAction)
      previousEntry == At(ls.computedStates, Len(ls.computedStates) - 1)
  IN IF ~previousEntry.def
     THEN Thrown([ls EXCEPT !.actionsById = actionsById])
     ELSE LET nextEntry == computeNextEntry(r, liftedAction.action,
                                            previousEntry.state,
                                            previousEntry.error)
          IN Done([ls EXCEPT !.currentStateIndex = currentStateIndex,
                             !.nextActionId = actionId + 1,
                             !.actionsById = actionsById,
                             !.stagedActionIds = Append(@, actionId),
                             !.computedStates = Append(@, nextEntry)], FALSE)

\* IMPORT_STATE that takes the supplied computedStates as already computed.
ImportStateCaseTrusted(ls, liftedAction) ==
  Done(liftedAction.nextLiftedState, FALSE)

\* Every field, monitorState included, is taken from nextLiftedState;
\* shouldRecomputeStates keeps its initial value true.
ImportStateCase(ls, liftedAction) ==
  Done(liftedAction.nextLiftedState, TRUE)

\* '@@redux/INIT' without the recomputation.
ReduxInitCaseNoRecompute(ls) == Done(ls, FALSE)

\* '@@redux/INIT': always recompute states on hot reload and init.
ReduxInitCase(ls) == Done(ls, TRUE)

\* default: an action of the monitor only.
DefaultCase(ls) == Done(ls, FALSE)

\* The result of one call of the lifted reducer: [threw, state].  When the
\* call throws, state is the previous lifted state as the caller still
\* holds it.
liftReducerWith(r, initialCommittedState, liftedState, liftedAction) ==
  LET c == CASE liftedAction.type = "RESET" ->
                  ResetCase(liftedState, initialCommittedState)
             [] liftedAction.type = "COMMIT" -> CommitCase(liftedState)
             [] liftedAction.type = "ROLLBACK" -> RollbackCase(liftedState)
             [] liftedAction.type = "TOGGLE_ACTION" ->
                  ToggleActionCase(liftedState, liftedAction)
             [] liftedAction.type = "JUMP_TO_STATE" ->
                  JumpToStateCase(liftedState, liftedAction)
             [] liftedAction.type = "SWEEP" -> SweepCase(liftedState)
             [] liftedAction.type = "PERFORM_ACTION" ->
                  PerformActionCase(r, liftedState, liftedAction)
             [] liftedAction.type = "IMPORT_STATE" ->
                  ImportStateCase(liftedState, liftedAction)
             [] liftedAction.type = "@@redux/INIT" ->
                  ReduxInitCase(liftedState)
             [] OTHER -> DefaultCase(liftedState)
  IN IF c.threw
     THEN [threw |-> TRUE, state |-> c.state]
     ELSE [threw |-> FALSE,
           state |-> [c.state EXCEPT
              !.computedStates =
                 IF c.shouldRecomputeStates
                 THEN recomputeStates(r, c.state.committedState,
                                      c.state.actionsById,
                                      c.state.stagedActionIds,
                                      c.state.skippedActionIds)
                 ELSE @,
              !.monitorState = monitorReducer(@, liftedAction)]]

(***************************************************************************)
(* unliftState / unliftStore.getState                                      *)
(***************************************************************************)
unliftState(liftedState) ==
  At(liftedState.computedStates, liftedState.currentStateIndex)

\* getState that stores whatever it read, defined or not.
getStateAlwaysStores(liftedState, lastDefined) ==
  LET entry == unliftState(liftedState) IN
  IF ~entry.def
  THEN [threw |-> TRUE, value |-> Undefined, lastDefinedState |-> lastDefined]
  ELSE [threw |-> FALSE, value |-> entry.state, lastDefinedState |-> entry.state]

\* [threw, value, lastDefinedState]: the value returned and the closure
\* variable after the call.
getState(liftedState, lastDefined) ==
  LET entry == unliftState(liftedState) IN
  IF ~entry.def
  THEN [threw |-> TRUE, value |-> Undefined, lastDefinedState |-> lastDefined]
  ELSE LET next == IF entry.state # Undefined THEN entry.state ELSE lastDefined
       IN [threw |-> FALSE, value |-> next, lastDefinedState |-> next]

(***************************************************************************)
(* The store.                                                              *)
(*   liftedState      liftedStore.getState(), the state the underlying     *)
(*                    store holds                                          *)
(*   lastDefinedState the closure variable of unliftStore                  *)
(*   currentReducer   the application reducer the lifted reducer closes    *)
(*                    over (replaced by replaceReducer)                    *)
(*   initialState     the preloaded state given to the enhanced            *)
(*                    createStore                                          *)
(* History variables.                                                      *)
(*   last      the last call on the store: "dispatch" or "getState" (the   *)
(*             type of the meta-action for a typed Tracked action and for  *)
(*             ImportState), whether it returned or threw, and the value   *)
(*             getState returned                                           *)
(*   sinceCommit  TRUE after a COMMIT that returned, while only ROLLBACK,   *)
(*             RESET, TOGGLE_ACTION, JUMP_TO_STATE, SWEEP, monitor actions *)
(*             and getState have followed it                               *)
(*   observed  the last defined value a getState call returned (Undefined  *)
(*             when none did)                                              *)
(*   produced  whether the selected entry has held a defined state in some *)
(*             state so far                                                *)
(* The caller of the lifted store and the reference store (driven by the   *)
(* Tracked actions, KeepState and ImportState only).                       *)
(*   kept      the lifted states the caller got from                       *)
(*             liftedStore.getState() and still holds, as they read now:   *)
(*             ls is the lifted state, obj names its actionsById object    *)
(*             (the index of the first kept state that holds this object)  *)
(*   curObj    the actionsById object of liftedState: the obj of the kept  *)
(*             states that share it, 0 when no kept state does             *)
(*   refState  the lifted state of a reference store that runs the same    *)
(*             calls and builds a fresh actionsById on every               *)
(*             PERFORM_ACTION                                              *)
(*   refKept   the lifted states the caller keeps from the reference store *)
(***************************************************************************)
VARIABLES liftedState, lastDefinedState, currentReducer, initialState,
          last, sinceCommit, observed, produced,
          kept, curObj, refState, refKept

vars == <<liftedState, lastDefinedState, currentReducer, initialState,
          last, sinceCommit, observed, produced,
          kept, curObj, refState, refKept>>

ReduxInit == [type |-> "@@redux/INIT"]
MonitorOther == [type |-> "@@monitor/OTHER"]

SelectedDefined(ls) ==
  unliftState(ls).def /\ unliftState(ls).state # Undefined

\* createStore(liftReducer(reducer)) dispatches '@@redux/INIT' on the
\* initial lifted state.
Init ==
  /\ currentReducer \in Reducers
  /\ initialState \in InitialStates
  /\ liftedState = liftReducerWith(currentReducer, initialState,
                                   initialLiftedState(initialState),
                                   ReduxInit).state
  /\ lastDefinedState = Undefined
  /\ last = [call |-> "dispatch", out |-> "returned", value |-> Undefined]
  /\ sinceCommit = FALSE
  /\ observed = Undefined
  /\ produced = SelectedDefined(liftedState)
  /\ kept = <<>>
  /\ curObj = 0
  /\ refState = liftedState
  /\ refKept = <<>>

\* liftedStore.dispatch(liftedAction) with the lifted reducer built over r.
DispatchWith(r, liftedAction) ==
  LET res == liftReducerWith(r, initialState, liftedState, liftedAction) IN
  /\ liftedState' = res.state
  /\ last' = [call |-> "dispatch",
              out |-> IF res.threw THEN "threw" ELSE "returned",
              value |-> Undefined]
  /\ produced' = (produced \/ SelectedDefined(res.state))
  /\ UNCHANGED <<lastDefinedState, initialState, observed>>
  /\ UNCHANGED <<kept, curObj, refState, refKept>>

Dispatch(liftedAction) ==
  /\ DispatchWith(currentReducer, liftedAction)
  /\ UNCHANGED currentReducer

\* unliftStore.dispatch(action), while ids up to maxId are free.
PerformAction(maxId) ==
  /\ liftedState.nextActionId <= maxId
  /\ \E action \in AppActions : Dispatch(liftAction(action))
  /\ sinceCommit' = FALSE

Reset ==
  /\ Dispatch(reset)
  /\ UNCHANGED sinceCommit

Commit ==
  /\ Dispatch(commit)
  /\ sinceCommit' = IF last'.out = "returned" THEN TRUE ELSE sinceCommit

Rollback ==
  /\ Dispatch(rollback)
  /\ UNCHANGED sinceCommit

ToggleAction ==
  /\ \E i \in 1 .. Len(liftedState.stagedActionIds) :
        Dispatch(toggleAction(liftedState.stagedActionIds[i]))
  /\ UNCHANGED sinceCommit

JumpToState ==
  /\ \E index \in 0 .. (Len(liftedState.stagedActionIds) - 1) :
        Dispatch(jumpToState(index))
  /\ UNCHANGED sinceCommit

Sweep ==
  /\ Dispatch(sweep)
  /\ UNCHANGED sinceCommit

MonitorAction ==
  /\ Dispatch(MonitorOther)
  /\ UNCHANGED sinceCommit

\* unliftStore.replaceReducer: the underlying store swaps in the newly
\* lifted reducer and dispatches '@@redux/INIT' to it.
ReplaceReducer ==
  /\ \E nextReducer \in Reducers :
        /\ currentReducer' = nextReducer
        /\ DispatchWith(nextReducer, ReduxInit)
  /\ sinceCommit' = FALSE

GetState ==
  LET g == getState(liftedState, lastDefinedState) IN
  /\ lastDefinedState' = g.lastDefinedState
  /\ last' = [call |-> "getState",
              out |-> IF g.threw THEN "threw" ELSE "returned",
              value |-> g.value]
  /\ observed' = IF ~g.threw /\ g.value # Undefined THEN g.value ELSE observed
  /\ UNCHANGED <<liftedState, currentReducer, initialState, sinceCommit, produced>>
  /\ UNCHANGED <<kept, curObj, refState, refKept>>

Next ==
  \/ PerformAction(MaxActionId)
  \/ Reset
  \/ Commit
  \/ Rollback
  \/ ToggleAction
  \/ JumpToState
  \/ Sweep
  \/ MonitorAction
  \/ ReplaceReducer

\* The history state machine under every meta-action of the lifted store.
Spec == Init /\ [][Next]_vars

NextDispatch ==
  \/ PerformAction(MaxDispatches)
  \/ JumpToState
  \/ MonitorAction

\* A freshly constructed store that only receives application actions,
\* cursor moves and monitor actions: no meta-action changes the history.
SpecDispatch == Init /\ [][NextDispatch]_vars

NextStore ==
  \/ PerformAction(MaxStoreActionId)
  \/ Reset
  \/ Commit
  \/ Rollback
  \/ ToggleAction
  \/ JumpToState
  \/ Sweep
  \/ GetState

\* The projected store: meta-actions interleaved with getState calls.
SpecStore == Init /\ [][NextStore]_vars

(***************************************************************************)
(* A caller that keeps lifted states and imports them again.               *)
(***************************************************************************)
\* The lifted reducer of the reference store: the same cases, and
\* PERFORM_ACTION writes into a copy of actionsById, so a call that throws
\* leaves the previous lifted state as it was.
referenceReducerWith(r, initialCommittedState, ls, liftedAction) ==
  LET res == liftReducerWith(r, initialCommittedState, ls, liftedAction)
  IN [threw |-> res.threw, state |-> IF res.threw THEN ls ELSE res.state]

\* RESET, COMMIT and ROLLBACK that return give the next lifted state a new
\* actionsById object; every other case passes the object on.
FreshActionsById(res, liftedAction) ==
  /\ ~res.threw
  /\ liftedAction.type \in {"RESET", "COMMIT", "ROLLBACK"}

\* liftedStore.dispatch(liftedAction) on both stores; last.call is the type
\* of the meta-action when typed, "dispatch" otherwise.  PERFORM_ACTION's
\* write into the actionsById object shows in every kept state that holds
\* the object.
TrackedDispatchWith(r, liftedAction, typed) ==
  LET res == liftReducerWith(r, initialState, liftedState, liftedAction)
      ref == referenceReducerWith(r, initialState, refState, liftedAction)
      fresh == FreshActionsById(res, liftedAction)
  IN /\ liftedState' = res.state
     /\ refState' = ref.state
     /\ curObj' = IF fresh THEN 0 ELSE curObj
     /\ kept' = [i \in DOMAIN kept |->
                   IF ~fresh /\ kept[i].obj = curObj
                   THEN [kept[i] EXCEPT !.ls.actionsById = res.state.actionsById]
                   ELSE kept[i]]
     /\ last' = [call |-> IF typed THEN liftedAction.type ELSE "dispatch",
                 out |-> IF res.threw THEN "threw" ELSE "returned",
                 value |-> Undefined]
     /\ produced' = (produced \/ SelectedDefined(res.state))
     /\ UNCHANGED <<lastDefinedState, initialState, observed, refKept>>

Tracked(liftedAction, typed) ==
  /\ TrackedDispatchWith(currentReducer, liftedAction, typed)
  /\ UNCHANGED currentReducer

TrackedPerformAction(maxId, typed) ==
  /\ liftedState.nextActionId <= maxId
  /\ \E action \in AppActions : Tracked(liftAction(action), typed)
  /\ sinceCommit' = FALSE

TrackedReset(typed) ==
  /\ Tracked(reset, typed)
  /\ UNCHANGED sinceCommit

TrackedCommit(typed) ==
  /\ Tracked(commit, typed)
  /\ sinceCommit' = IF last'.out = "returned" THEN TRUE ELSE sinceCommit

TrackedRollback(typed) ==
  /\ Tracked(rollback, typed)
  /\ UNCHANGED sinceCommit

TrackedToggleAction(typed) ==
  /\ \E i \in 1 .. Len(liftedState.stagedActionIds) :
        Tracked(toggleAction(liftedState.stagedActionIds[i]), typed)
  /\ UNCHANGED sinceCommit

TrackedJumpToState(typed) ==
  /\ \E index \in 0 .. (Len(liftedState.stagedActionIds) - 1) :
        Tracked(jumpToState(index), typed)
  /\ UNCHANGED sinceCommit

TrackedSweep(typed) ==
  /\ Tracked(sweep, typed)
  /\ UNCHANGED sinceCommit

TrackedMonitorAction(typed) ==
  /\ Tracked(MonitorOther, typed)
  /\ UNCHANGED sinceCommit

TrackedReplaceReducer(typed) ==
  /\ \E nextReducer \in Reducers :
        /\ currentReducer' = nextReducer
        /\ TrackedDispatchWith(nextReducer, ReduxInit, typed)
  /\ sinceCommit' = FALSE

\* The caller keeps liftedStore.getState() of both stores, while it holds
\* fewer than maxKept states.
KeepState(maxKept) ==
  LET obj == IF curObj = 0 THEN Len(kept) + 1 ELSE curObj IN
  /\ Len(kept) < maxKept
  /\ kept' = Append(kept, [ls |-> liftedState, obj |-> obj])
  /\ curObj' = obj
  /\ refKept' = Append(refKept, refState)
  /\ UNCHANGED <<liftedState, lastDefinedState, currentReducer, initialState,
                 last, sinceCommit, observed, produced, refState>>

\* liftedStore.dispatch(importState(s)) for a kept state s, on both stores:
\* the next lifted state holds the actionsById object of s.
ImportState ==
  \E i \in DOMAIN kept :
     LET res == liftReducerWith(currentReducer, initialState, liftedState,
                                importState(kept[i].ls))
         ref == referenceReducerWith(currentReducer, initialState, refState,
                                     importState(refKept[i]))
     IN /\ liftedState' = res.state
        /\ refState' = ref.state
        /\ curObj' = kept[i].obj
        /\ last' = [call |-> "IMPORT_STATE",
                    out |-> IF res.threw THEN "threw" ELSE "returned",
                    value |-> Undefined]
        /\ produced' = (produced \/ SelectedDefined(res.state))
        /\ sinceCommit' = FALSE
        /\ UNCHANGED <<lastDefinedState, currentReducer, initialState,
                       observed, kept, refKept>>

NextImport ==
  \/ TrackedPerformAction(MaxImportActionId, FALSE)
  \/ TrackedJumpToState(FALSE)
  \/ TrackedReplaceReducer(FALSE)
  \/ KeepState(MaxImportKept)
  \/ ImportState

\* A caller that keeps a lifted state and imports it again.
SpecImport == Init /\ [][NextImport]_vars

NextAlias ==
  \/ TrackedPerformAction(MaxAliasActionId, FALSE)
  \/ TrackedReset(FALSE)
  \/ KeepState(MaxAliasKept)
  \/ ImportState

\* A caller that keeps several lifted states of one run.
SpecAlias == Init /\ [][NextAlias]_vars

NextTyped ==
  \/ TrackedPerformAction(MaxTypedActionId, TRUE)
  \/ TrackedReset(TRUE)
  \/ TrackedCommit(TRUE)
  \/ TrackedRollback(TRUE)
  \/ TrackedToggleAction(TRUE)
  \/ TrackedJumpToState(TRUE)
  \/ TrackedSweep(TRUE)
  \/ TrackedMonitorAction(TRUE)
  \/ TrackedReplaceReducer(TRUE)

\* Every meta-action of Spec, with the type of the last one on record.
SpecTyped == Init /\ [][NextTyped]_vars

(***************************************************************************)
(* Properties.                                                             *)
(***************************************************************************)
\* The application actions of the staged ids after the first, in order.
StagedAppActions(ls) ==
  [i \in 1 .. (Len(ls.stagedActionIds) - 1) |->
     ls.actionsById[ls.stagedActionIds[i + 1]].action]

\* reducer(...reducer(reducer(state, a1), a2)..., aN)
RECURSIVE FoldReducer(_, _, _)
FoldReducer(r, state, actions) ==
  IF actions = <<>>
  THEN state
  ELSE FoldReducer(r, reducer(r, state, Head(actions)).value, Tail(actions))

FullReplay(ls) ==
  recomputeStates(currentReducer, ls.committedState, ls.actionsById,
                  ls.stagedActionIds, ls.skippedActionIds)

\* C1 (append correctness): with a reducer that never throws, after N
\* PERFORM_ACTION meta-actions carrying a1..aN on a fresh store (cursor moves
\* and monitor actions allowed in between), the last computed entry holds
\* reducer(...reducer(reducer(init, a1), a2)..., aN), init being the state
\* computed for the synthetic init action, and it is the entry a full
\* replay of the same log produces.
C1_AppendCorrectness ==
  currentReducer = "safe" =>
    LET ls == liftedState
        N == Len(ls.stagedActionIds) - 1
        init == reducer(currentReducer, initialState, INIT_ACTION).value
    IN /\ Len(ls.computedStates) = N + 1
       /\ ls.computedStates[N + 1].def
       /\ ls.computedStates[N + 1].error = ""
       /\ ls.computedStates[N + 1].state =
             FoldReducer(currentReducer, init, StagedAppActions(ls))
       /\ ls.computedStates[N + 1] = FullReplay(ls)[N + 1]

\* Three actions were appended, the second reduced to undefined, and the
\* cursor was rewound before the appends.
C1_Witness ==
  /\ currentReducer = "safe"
  /\ StagedAppActions(liftedState) = <<"INC", "UNDEF", "BOOM">>
  /\ liftedState.currentStateIndex = 0
  /\ liftedState.computedStates[3].state = Undefined
  /\ liftedState.computedStates[4].state = 0

\* C2 (error containment on dispatch): under the reducer that throws on
\* BOOM, after PERFORM_ACTION of [A, BOOM, C] on a fresh store the entry of
\* BOOM has an error and the state of the entry before it, the entry of C
\* carries the propagated error and that same state, and no dispatch threw.
C2_ErrorContainment ==
  /\ last.out = "returned"
  /\ \A A, C \in AppActions \ {"BOOM"} :
        (currentReducer = "counter"
           /\ StagedAppActions(liftedState) = <<A, "BOOM", C>>) =>
          LET cs == liftedState.computedStates IN
          /\ Len(cs) = 4
          /\ cs[2].error = ""
          /\ cs[3].error = BoomError
          /\ cs[3].state = cs[2].state
          /\ cs[4].error = InterruptedError
          /\ cs[4].state = cs[2].state

\* [INC, BOOM, INC] was dispatched: C would have changed the state.
C2_Witness ==
  /\ currentReducer = "counter"
  /\ StagedAppActions(liftedState) = <<"INC", "BOOM", "INC">>
  /\ liftedState.computedStates[4].error # ""
  /\ liftedState.computedStates[4].state = liftedState.computedStates[2].state
  /\ liftedState.currentStateIndex = 3

Skipped(ls, id) ==
  \E j \in 1 .. Len(ls.skippedActionIds) : ls.skippedActionIds[j] = id

SkippedSet(ls) ==
  {ls.skippedActionIds[j] : j \in 1 .. Len(ls.skippedActionIds)}

\* C3 as stated (error propagation in a full replay): once the entry at
\* index i of the sequence recomputeStates returns has an error, every
\* later entry, skipped or not, has the error "Interrupted by an error up
\* the chain" and the state of entry i.
C3_Original ==
  LET cs == FullReplay(liftedState) IN
  \A i, j \in 1 .. Len(cs) :
    (i < j /\ cs[i].def /\ cs[i].error # "") =>
      /\ cs[j].def
      /\ cs[j].error = InterruptedError
      /\ cs[j].state = cs[i].state

\* C3 (amended): once the entry at index i has an error, every later entry j
\* has the state of entry i and an error: "Interrupted by an error up the
\* chain" when some action at i+1..j is not skipped, and the error of entry
\* i itself when all of them are skipped (a skipped entry is the previous
\* entry).
C3_ErrorPropagation ==
  LET ls == liftedState
      cs == FullReplay(ls)
  IN \A i, j \in 1 .. Len(cs) :
       (i < j /\ cs[i].def /\ cs[i].error # "") =>
         /\ cs[j].def
         /\ cs[j].state = cs[i].state
         /\ cs[j].error =
              IF \E k \in (i + 1) .. j : ~Skipped(ls, ls.stagedActionIds[k])
              THEN InterruptedError
              ELSE cs[i].error

\* A replay in which BOOM threw and the skipped action after it repeats the
\* entry of BOOM.
C3_Witness ==
  /\ currentReducer = "counter"
  /\ liftedState.stagedActionIds = <<0, 1, 2>>
  /\ StagedAppActions(liftedState) = <<"BOOM", "INC">>
  /\ liftedState.skippedActionIds = <<2>>
  /\ liftedState.computedStates = FullReplay(liftedState)
  /\ liftedState.computedStates[3].error = BoomError

SameState(e1, e2) == e1.def = e2.def /\ e1.state = e2.state

\* C4 (skip transparency): for every staged, not skipped id k at position
\* p >= 1, TOGGLE_ACTION(k) gives entry p the state of entry p - 1, and a
\* second TOGGLE_ACTION(k) restores the set of skipped ids and every entry
\* of computedStates.
C4_SkipTransparency ==
  LET ls == liftedState IN
  \A p \in 1 .. (Len(ls.stagedActionIds) - 1) :
    LET k == ls.stagedActionIds[p + 1]
        t1 == liftReducerWith(currentReducer, initialState, ls, toggleAction(k))
        t2 == liftReducerWith(currentReducer, initialState, t1.state,
                              toggleAction(k))
    IN ~Skipped(ls, k) =>
         /\ ~t1.threw
         /\ Skipped(t1.state, k)
         /\ Len(t1.state.computedStates) = Len(ls.stagedActionIds)
         /\ SameState(At(t1.state.computedStates, p),
                      At(t1.state.computedStates, p - 1))
         /\ ~t2.threw
         /\ SkippedSet(t2.state) = SkippedSet(ls)
         /\ t2.state.computedStates = ls.computedStates

\* The second of two INCs is toggled off: its entry repeats the state
\* before it, which differs from the state it computes when toggled back.
C4_Witness ==
  /\ liftedState.stagedActionIds = <<0, 1, 2>>
  /\ StagedAppActions(liftedState) = <<"INC", "INC">>
  /\ liftedState.skippedActionIds = <<2>>
  /\ liftedState.computedStates[3].state = liftedState.computedStates[2].state
  /\ liftReducerWith(currentReducer, initialState, liftedState,
                     toggleAction(2)).state.computedStates[3].state
       # liftedState.computedStates[3].state

NoPreCommitAction(ls) ==
  /\ ls.actionsById = InitActionsById
  /\ \A i \in 1 .. Len(ls.stagedActionIds) : ls.stagedActionIds[i] = 0

\* C5 (commit irreversibility): from any reachable lifted state, after
\* COMMIT stagedActionIds = [0], actionsById = {0: init}, skippedActionIds
\* is empty, currentStateIndex = 0 and committedState is the state that was
\* selected before; and while only ROLLBACK, RESET, TOGGLE_ACTION,
\* JUMP_TO_STATE and SWEEP follow, no pre-commit action is in actionsById or
\* stagedActionIds.
C5_CommitIrreversible ==
  [][/\ Commit =>
          /\ last'.out = "returned"
          /\ liftedState'.stagedActionIds = <<0>>
          /\ liftedState'.actionsById = InitActionsById
          /\ liftedState'.skippedActionIds = <<>>
          /\ liftedState'.currentStateIndex = 0
          /\ unliftState(liftedState).def
          /\ liftedState'.committedState = unliftState(liftedState).state
     /\ sinceCommit' => NoPreCommitAction(liftedState')]_vars

\* What C5 says of the COMMITs that return.
C5_ReturnedCommit ==
  [][/\ (Commit /\ last'.out = "returned") =>
          /\ liftedState'.stagedActionIds = <<0>>
          /\ liftedState'.actionsById = InitActionsById
          /\ liftedState'.skippedActionIds = <<>>
          /\ liftedState'.currentStateIndex = 0
          /\ liftedState'.committedState = unliftState(liftedState).state
     /\ sinceCommit' => NoPreCommitAction(liftedState')]_vars

\* seq without the members of set, order kept.
RECURSIVE Without(_, _)
Without(seq, set) ==
  IF seq = <<>>
  THEN <<>>
  ELSE IF Head(seq) \in set
       THEN Without(Tail(seq), set)
       ELSE <<Head(seq)>> \o Without(Tail(seq), set)

\* C6 (sweep): after SWEEP stagedActionIds is the previous list without the
\* skipped ids, in the previous order, skippedActionIds is empty and
\* currentStateIndex is the smaller of its previous value and the new length
\* of stagedActionIds minus one.
C6_Sweep ==
  [][Sweep =>
       LET staged == Without(liftedState.stagedActionIds, SkippedSet(liftedState))
       IN /\ last'.out = "returned"
          /\ liftedState'.stagedActionIds = staged
          /\ liftedState'.skippedActionIds = <<>>
          /\ liftedState'.currentStateIndex =
               IF liftedState.currentStateIndex <= Len(staged) - 1
               THEN liftedState.currentStateIndex
               ELSE Len(staged) - 1]_vars

\* Action 1 was swept out of [0, 1, 2]: it is still recorded, no longer
\* staged, and the cursor is on the last remaining entry.
C6_Witness ==
  /\ liftedState.stagedActionIds = <<0, 2>>
  /\ DOMAIN liftedState.actionsById = {0, 1, 2}
  /\ liftedState.skippedActionIds = <<>>
  /\ liftedState.currentStateIndex = 1
  /\ Len(liftedState.computedStates) = 2

ReturnedByGetState == last.call = "getState" /\ last.out = "returned"

\* C7 as stated (getState monotonic definedness): once a defined state has
\* been produced at the selected index, getState() never returns undefined;
\* when the selected state is undefined it returns the last defined value
\* observed.
C7_Original ==
  ReturnedByGetState =>
    /\ produced => last.value # Undefined
    /\ unliftState(liftedState).state = Undefined => last.value = observed

\* C7 (amended): once a getState() call has returned a defined value,
\* getState() never returns undefined; when the selected state is undefined
\* it returns the last defined value an earlier getState() call returned
\* (undefined when none did).
C7_GetStateDefinedness ==
  ReturnedByGetState =>
    /\ observed # Undefined => last.value # Undefined
    /\ unliftState(liftedState).state = Undefined => last.value = observed

\* getState() answered with the value seen earlier while the selected state
\* is undefined.
C7_Witness ==
  /\ ReturnedByGetState
  /\ unliftState(liftedState).def
  /\ unliftState(liftedState).state = Undefined
  /\ last.value = 1

JumpToCurrent(ls) ==
  liftReducerWith(currentReducer, initialState, ls,
                  jumpToState(ls.currentStateIndex)).state

\* C8 (JUMP_TO_STATE is a pure cursor move): JUMP_TO_STATE(index) sets
\* currentStateIndex to index, passes monitorState through the monitor
\* reducer and leaves every other field, computedStates included, as it
\* was; jumping to the current index twice leaves the log fields and the
\* cursor as they were.
C8_JumpPureCursorMove ==
  [][JumpToState =>
       /\ last'.out = "returned"
       /\ liftedState'.currentStateIndex \in
            0 .. (Len(liftedState.stagedActionIds) - 1)
       /\ liftedState' =
            [liftedState EXCEPT
               !.currentStateIndex = liftedState'.currentStateIndex,
               !.monitorState =
                  monitorReducer(@, jumpToState(liftedState'.currentStateIndex))]
       /\ [JumpToCurrent(JumpToCurrent(liftedState)) EXCEPT
             !.monitorState = liftedState.monitorState] = liftedState]_vars

\* The cursor was moved back to the first entry of a log of three whose
\* skipped id and computed entries are still in place.
C8_Witness ==
  /\ liftedState.stagedActionIds = <<0, 1, 2>>
  /\ liftedState.skippedActionIds = <<1>>
  /\ liftedState.currentStateIndex = 0
  /\ liftedState.computedStates = FullReplay(liftedState)
  /\ liftedState.computedStates[3].state # liftedState.computedStates[1].state

\* C9 (cursor range invariant): 0 <= currentStateIndex <
\* length(stagedActionIds) in every reachable lifted state.
C9_CursorInRange ==
  /\ 0 <= liftedState.currentStateIndex
  /\ liftedState.currentStateIndex < Len(liftedState.stagedActionIds)

\* C10 (init anchor invariant): stagedActionIds is non-empty and its first
\* id is 0 in every reachable lifted state.
C10_InitAnchor ==
  /\ Len(liftedState.stagedActionIds) > 0
  /\ liftedState.stagedActionIds[1] = 0

\* C11 (state machine never throws for in-contract meta-actions): from
\* every reachable lifted state, a dispatched meta-action whose arguments
\* are in contract (JUMP_TO_STATE index in range, TOGGLE_ACTION id staged)
\* makes the lifted reducer return a next lifted state, never throw.
C11_NeverThrows ==
  last.call = "dispatch" => last.out = "returned"

\* The six log and cursor fields of a lifted state.
LogFields(ls) ==
  <<ls.actionsById, ls.nextActionId, ls.stagedActionIds,
    ls.skippedActionIds, ls.committedState, ls.currentStateIndex>>

\* The kept lifted states the last IMPORT_STATE may have been given: those
\* whose log and cursor fields the store now holds.
Imported == {i \in DOMAIN kept : LogFields(kept[i].ls) = LogFields(liftedState)}

C13_InPlaceNotObservable ==
  /\ liftedState.actionsById = refState.actionsById
  /\ liftedState.computedStates = refState.computedStates
  /\ unliftState(liftedState) = unliftState(refState)

\* The part of C13 on what the application sees: computedStates and the
\* projected state equal those of the reference store.
C13_SameComputedStates ==
  /\ liftedState.computedStates = refState.computedStates
  /\ unliftState(liftedState) = unliftState(refState)

\* C14 as stated (action ids are never reused): across every transition of
\* the lifted reducer (no IMPORT_STATE) nextActionId never decreases, and
\* it strictly increases on PERFORM_ACTION.
C14_Original ==
  [][/\ liftedState'.nextActionId >= liftedState.nextActionId
     /\ (PerformAction(MaxActionId) /\ last'.out = "returned") =>
           liftedState'.nextActionId > liftedState.nextActionId]_vars

\* The records of the ids below nextActionId are kept as they are.
AssignedIdsKept ==
  \A id \in DOMAIN liftedState.actionsById :
     id < liftedState.nextActionId =>
       /\ id \in DOMAIN liftedState'.actionsById
       /\ liftedState'.actionsById[id] = liftedState.actionsById[id]

\* C14 (action ids are not reused between two resets of the log): across
\* every transition of the lifted reducer (no IMPORT_STATE) other than
\* RESET, COMMIT and ROLLBACK, nextActionId never decreases, and it
\* increases by one on PERFORM_ACTION, which assigns the previous
\* nextActionId; RESET, COMMIT and ROLLBACK set nextActionId back to 1 and
\* keep the record of id 0 only, so ids are assigned again from 1.  While
\* nextActionId does not go back, an id once assigned by a PERFORM_ACTION
\* transition keeps its action, also after the id was removed from
\* stagedActionIds.
C14_IdsNotReusedUntilReset ==
  [][/\ liftedState'.nextActionId < liftedState.nextActionId =>
           Reset \/ Commit \/ Rollback
     /\ ((Reset \/ Commit \/ Rollback) /\ last'.out = "returned") =>
           /\ liftedState'.nextActionId = 1
           /\ liftedState'.actionsById = InitActionsById
     /\ (PerformAction(MaxActionId) /\ last'.out = "returned") =>
           /\ liftedState'.nextActionId = liftedState.nextActionId + 1
           /\ liftedState'.stagedActionIds =
                Append(liftedState.stagedActionIds, liftedState.nextActionId)
           /\ liftedState.nextActionId \in DOMAIN liftedState'.actionsById
     /\ liftedState'.nextActionId >= liftedState.nextActionId =>
           AssignedIdsKept]_vars

\* After a COMMIT ids 1 and 2 were assigned again, and id 1 was swept from
\* stagedActionIds while its record and nextActionId stayed.
C14_Witness ==
  /\ liftedState.committedState # initialState
  /\ liftedState.nextActionId = 3
  /\ liftedState.stagedActionIds = <<0, 2>>
  /\ 1 \in DOMAIN liftedState.actionsById

\* C15 (replaceReducer forces a full replay with the new reducer): after
\* replaceReducer(r2), computedStates equals the full replay of the
\* unchanged committedState, actionsById, stagedActionIds and
\* skippedActionIds under r2, so every entry from index 0 on, those that
\* carried an error under the old reducer included, reflects r2; the log
\* and cursor fields are unchanged.
C15_ReplaceReducerReplays ==
  [][TrackedReplaceReducer(TRUE) =>
       /\ last'.out = "returned"
       /\ LogFields(liftedState') = LogFields(liftedState)
       /\ liftedState'.computedStates =
            recomputeStates(currentReducer', liftedState.committedState,
                            liftedState.actionsById,
                            liftedState.stagedActionIds,
                            liftedState.skippedActionIds)
       /\ (currentReducer' = "safe" =>
             \A i \in 1 .. Len(liftedState'.computedStates) :
                liftedState'.computedStates[i].def =>
                  liftedState'.computedStates[i].error = "")]_vars

\* replaceReducer has just replayed, under the reducer that does not
\* throw, a log whose only action throws under the other reducer: the
\* entry carries no error.
C15_Witness ==
  /\ last.call = "@@redux/INIT"
  /\ currentReducer = "safe"
  /\ liftedState.stagedActionIds = <<0, 1>>
  /\ liftedState.skippedActionIds = <<>>
  /\ liftedState.actionsById[1].action = "BOOM"
  /\ liftedState.computedStates[2] = [def |-> TRUE, state |-> 0, error |-> ""]

\* What PERFORM_ACTION does to the lifted state when it returns.
PerformActionEffect ==
  LET actionId == liftedState.nextActionId
      n == Len(liftedState.computedStates)
  IN /\ liftedState'.nextActionId = actionId + 1
     /\ liftedState'.actionsById[actionId].type = "PERFORM_ACTION"
     /\ \A id \in DOMAIN liftedState.actionsById \ {actionId} :
           liftedState'.actionsById[id] = liftedState.actionsById[id]
     /\ liftedState'.stagedActionIds =
          Append(liftedState.stagedActionIds, actionId)
     /\ Len(liftedState'.computedStates) = n + 1
     /\ SubSeq(liftedState'.computedStates, 1, n) = liftedState.computedStates
     /\ liftedState'.currentStateIndex =
          IF liftedState.currentStateIndex =
               Len(liftedState.stagedActionIds) - 1
          THEN liftedState.currentStateIndex + 1
          ELSE liftedState.currentStateIndex
     /\ (liftedState.currentStateIndex # Len(liftedState.stagedActionIds) - 1
           => unliftState(liftedState') = unliftState(liftedState))
     /\ liftedState'.skippedActionIds = liftedState.skippedActionIds
     /\ liftedState'.committedState = liftedState.committedState

\* C16 (PERFORM_ACTION live-follow and frame): PERFORM_ACTION(a) assigns
\* id = previous nextActionId, records a under it, appends the id to
\* stagedActionIds and one entry to computedStates leaving the existing
\* entries as they were; currentStateIndex advances by one iff it was
\* length(stagedActionIds) - 1; skippedActionIds and committedState are
\* unchanged.
C16_PerformAction ==
  [][PerformAction(MaxActionId) =>
       (last'.out = "returned" /\ PerformActionEffect)]_vars

\* Every PERFORM_ACTION that returns has the effect C16 describes.
C16_ReturnedPerformAction ==
  [][(PerformAction(MaxActionId) /\ last'.out = "returned") =>
       PerformActionEffect]_vars

\* After RESET or ROLLBACK: the log holds the init action only, the cursor
\* is 0 and computedStates is the one entry replayed from committedState.
LogIsReset(ls) ==
  /\ ls.actionsById = InitActionsById
  /\ ls.nextActionId = 1
  /\ ls.stagedActionIds = <<0>>
  /\ ls.skippedActionIds = <<>>
  /\ ls.currentStateIndex = 0
  /\ ls.computedStates =
       recomputeStates(currentReducer, ls.committedState, InitActionsById,
                       <<0>>, <<>>)
  /\ Len(ls.computedStates) = 1
  /\ ls.computedStates[1].def
  /\ ls.computedStates[1].state =
       reducer(currentReducer, ls.committedState, INIT_ACTION).value

\* C17 (RESET vs ROLLBACK): both reset the log (actionsById = {0: init},
\* nextActionId = 1, stagedActionIds = [0], skippedActionIds empty,
\* currentStateIndex = 0) and recompute; after RESET committedState is the
\* initial state the store was created with, after ROLLBACK it is the
\* previous committedState.
C17_ResetVsRollback ==
  [][/\ TrackedReset(TRUE) =>
          /\ last'.out = "returned"
          /\ LogIsReset(liftedState')
          /\ liftedState'.committedState = initialState
     /\ TrackedRollback(TRUE) =>
          /\ last'.out = "returned"
          /\ LogIsReset(liftedState')
          /\ liftedState'.committedState = liftedState.committedState]_vars

\* ROLLBACK has just returned to a committed state that is not the initial
\* state of the store: the effect of the committed action is kept.
C17_Witness ==
  /\ last.call = "ROLLBACK"
  /\ last.out = "returned"
  /\ liftedState.committedState # initialState
  /\ LogIsReset(liftedState)

\* The monitor reducer ran once on the previous monitorState.
MonitorInvokedOnce ==
  liftedState'.monitorState =
    monitorReducer(liftedState.monitorState, MonitorOther)

\* C18 (monitor state is orthogonal to the log): for every call of the
\* lifted reducer, whichever branch is taken, the monitor reducer is
\* invoked exactly once and its result is the monitorState of the next
\* lifted state; an action of any other type changes no field other than
\* monitorState.
C18_MonitorOncePerCall ==
  [][/\ last'.out = "returned"
     /\ MonitorInvokedOnce
     /\ MonitorAction =>
          liftedState' = [liftedState EXCEPT
                            !.monitorState = liftedState'.monitorState]]_vars

\* Every call of the lifted reducer that returns has run the monitor
\* reducer once, and a monitor action changed monitorState only.
C18_ReturnedCalls ==
  [][last'.out = "returned" =>
       /\ MonitorInvokedOnce
       /\ MonitorAction =>
            liftedState' = [liftedState EXCEPT
                              !.monitorState = liftedState'.monitorState]]_vars

\* C19 (replay consistency invariant): in every lifted state reachable by
\* PERFORM_ACTION, TOGGLE_ACTION, SWEEP, JUMP_TO_STATE, RESET, COMMIT,
\* ROLLBACK, the init signal and monitor actions, under a reducer that may
\* throw, computedStates equals recomputeStates(reducer, committedState,
\* actionsById, stagedActionIds, skippedActionIds) entry by entry; in
\* particular the two lists have the same length.
C19_ReplayConsistency ==
  /\ Len(liftedState.computedStates) = Len(liftedState.stagedActionIds)
  /\ \A i \in 1 .. Len(liftedState.stagedActionIds) :
        liftedState.computedStates[i] = FullReplay(liftedState)[i]

\* After a toggle and a sweep of id 1, the entry of id 2, whose action
\* throws, was appended or replayed and carries the reducer's error.
C19_Witness ==
  /\ currentReducer = "counter"
  /\ liftedState.stagedActionIds = <<0, 2>>
  /\ liftedState.skippedActionIds = <<>>
  /\ 1 \in DOMAIN liftedState.actionsById
  /\ liftedState.actionsById[2].action = "BOOM"
  /\ liftedState.computedStates[2].error = BoomError

\* Whether the action makes the reducer r throw.
Throws(r, action) == \E state \in AppStates : reducer(r, state, action).threw

\* The positions (from 1) of the staged, non-skipped ids whose action makes
\* the current reducer throw.
ThrowingPositions(ls) ==
  {p \in 1 .. Len(ls.stagedActionIds) :
     /\ ~Skipped(ls, ls.stagedActionIds[p])
     /\ Throws(currentReducer, ls.actionsById[ls.stagedActionIds[p]].action)}

\* The actions of the non-skipped ids at positions from .. to.
RECURSIVE ActionsBetween(_, _, _)
ActionsBetween(ls, from, to) ==
  IF from > to
  THEN <<>>
  ELSE LET id == ls.stagedActionIds[from] IN
       (IF Skipped(ls, id) THEN <<>> ELSE <<ls.actionsById[id].action>>)
         \o ActionsBetween(ls, from + 1, to)

\* The lifted state TOGGLE_ACTION(id) returns for the staged id at
\* position p: no entry of a non-skipped id carries an error, and every
\* entry after p holds the later non-skipped actions applied to the state
\* just before p (to committedState where no entry comes before).
RecoveredByToggle(ls, p) ==
  LET res == liftReducerWith(currentReducer, initialState, ls,
                             toggleAction(ls.stagedActionIds[p]))
      after == res.state
      base == At(after.computedStates, p - 2)
  IN /\ ~res.threw
     /\ Skipped(after, ls.stagedActionIds[p])
     /\ Len(after.computedStates) = Len(ls.stagedActionIds)
     /\ \A j \in 1 .. Len(after.computedStates) :
           ~Skipped(after, after.stagedActionIds[j]) =>
             /\ after.computedStates[j].def
             /\ after.computedStates[j].error = ""
     /\ \A j \in (p + 1) .. Len(after.computedStates) :
           LET later == ActionsBetween(after, p + 1, j) IN
           IF later = <<>>
           THEN SameState(after.computedStates[j], base)
           ELSE /\ after.computedStates[j].def
                /\ after.computedStates[j].state =
                     FoldReducer(currentReducer,
                                 IF base.def THEN base.state
                                 ELSE after.committedState,
                                 later)

\* The single entry RESET or ROLLBACK leaves carries no error.
OnlyEntryWithoutError(res) ==
  /\ ~res.threw
  /\ Len(res.state.computedStates) = 1
  /\ res.state.computedStates[1].def
  /\ res.state.computedStates[1].error = ""

\* C20 (errors are recoverable by toggling): if exactly one staged,
\* non-skipped action of the current log makes the reducer throw, then
\* after TOGGLE_ACTION of its id no entry of computedStates at a position
\* of a non-skipped action carries an error, and every entry after the
\* toggled one holds the state got by applying the later non-skipped
\* actions to the state just before the toggled action; RESET and ROLLBACK
\* leave a computedStates whose only entry has no propagated error.
C20_RecoverableByToggling ==
  /\ \A p \in ThrowingPositions(liftedState) :
        ThrowingPositions(liftedState) = {p} =>
          RecoveredByToggle(liftedState, p)
  /\ OnlyEntryWithoutError(
       liftReducerWith(currentReducer, initialState, liftedState, reset))
  /\ OnlyEntryWithoutError(
       liftReducerWith(currentReducer, initialState, liftedState, rollback))

\* The throwing action of id 1 is skipped and the entry of id 2 holds the
\* state of its own action applied to the state before id 1, with no error.
C20_Witness ==
  /\ currentReducer = "counter"
  /\ liftedState.stagedActionIds = <<0, 1, 2>>
  /\ liftedState.skippedActionIds = <<1>>
  /\ liftedState.actionsById[1].action = "BOOM"
  /\ liftedState.actionsById[2].action = "INC"
  /\ liftedState.computedStates[1].state = 1
  /\ liftedState.computedStates[3] = [def |-> TRUE, state |-> 0, error |-> ""]

====
